---- MODULE Spec2Model ----
(***************************************************************************)
(* Attendance System backend (src/backend/index.js): an express app whose  *)
(* eight data routes each run one parameterized statement through a shared *)
(* pg connection pool and answer with JSON.                                 *)
(*                                                                         *)
(* A request is followed through the points where the event loop can       *)
(* interleave it with other requests:                                      *)
(*   Request      the handler runs up to `await pool.query(...)`           *)
(*   Connect      the pool lends the query a connection                    *)
(*   Query<Route> the store executes the statement (atomically)            *)
(*   Respond      the result reaches the process: the connection goes back *)
(*                to the pool and the handler resumes and answers          *)
(* The tables, their generated keys and the foreign key of attendance on   *)
(* students live in the store; the schema is not part of index.js.         *)
(*                                                                         *)
(* Spec follows the requests of a process whose startup connection test    *)
(* has settled, on a store that holds rows of earlier runs.                *)
(* SpecBoot follows the process from its first instruction, the connection *)
(* test racing with the first requests for the pool's connections.         *)
(***************************************************************************)
EXTENDS Integers, Sequences, FiniteSets, TLC

\* ---------------------------------------------------------------- bounds
MaxRequests == 2        \* requests the process is followed through
NumHandlers == 2        \* requests that can be in flight at once
PoolMax == 2            \* connections the pool lends at once

Handlers == 1..NumHandlers

Names == {"Amit", "Bela"}
RollNumbers == {"101", "102"}
Dates == {20240101, 20240201}          \* 2024-01-01, 2024-02-01 in date order
Statuses == {"present", "absent"}

\* ---------------------------------------------------------------- routes
NO_ROUTE == "-"                 \* of a handler that is serving no request
GET_STUDENTS == "GET /students"
GET_ATTENDANCE == "GET /attendance"
POST_STUDENTS == "POST /students"
POST_ATTENDANCE == "POST /attendance"
PUT_STUDENTS == "PUT /students/:id"
PUT_ATTENDANCE == "PUT /attendance/:id"
DELETE_STUDENTS == "DELETE /students/:id"
DELETE_ATTENDANCE == "DELETE /attendance/:id"

\* The routes that issue a statement through pool.query.
QueryRoutes ==
  {GET_STUDENTS, GET_ATTENDANCE, POST_STUDENTS, POST_ATTENDANCE,
   PUT_STUDENTS, PUT_ATTENDANCE, DELETE_STUDENTS, DELETE_ATTENDANCE}

\* The routes that test result.rowCount === 0.
ByIdRoutes == {PUT_STUDENTS, PUT_ATTENDANCE, DELETE_STUDENTS, DELETE_ATTENDANCE}

VARIABLES
  students,          \* rows of table students
  attendance,        \* rows of table attendance
  student_id_seq,    \* last value drawn for students.student_id
  attendance_id_seq, \* last value drawn for attendance.attendance_id
  pool,              \* connections currently lent by the pool
  startup,           \* the pool.connect() test at process start
  pc,                \* where each handler is with its request
  route,             \* the route of the request each handler is serving
  args,              \* the values bound to the statement of each request
  result,            \* what pool.query produced for each request
  held,              \* connections lent to each request
  queries,           \* statements each request has issued
  sent,              \* status codes each request has answered with
  requests,          \* requests received so far
  returned,          \* student_ids the answers of POST /students have carried
  deleted            \* student_ids for which DELETE /students/:id answered 200

vars ==
  <<students, attendance, student_id_seq, attendance_id_seq, pool, startup,
    pc, route, args, result, held, queries, sent, requests,
    returned, deleted>>

\* The keys a request can name: every key generated so far, and one that
\* never was (any key never generated finds the tables alike).
StudentIds == 1..(student_id_seq + 1)
AttendanceIds == 1..(attendance_id_seq + 1)

store == <<students, attendance, student_id_seq, attendance_id_seq>>
history == <<returned, deleted>>

\* ---------------------------------------------------------------- rows
StudentRow(id, name, roll_number) ==
  [student_id |-> id, name |-> name, roll_number |-> roll_number]

AttendanceRow(id, student_id, date, status) ==
  [attendance_id |-> id, student_id |-> student_id, date |-> date, status |-> status]

\* A row of the join selected by GET /attendance.
JoinedRow(a, s) ==
  [attendance_id |-> a.attendance_id, name |-> s.name,
   roll_number |-> s.roll_number, date |-> a.date, status |-> a.status]

\* Rows left in the store by earlier runs of the process.
SeedStudents == {StudentRow(1, "Amit", "101"), StudentRow(2, "Bela", "102")}
SeedAttendance == {AttendanceRow(1, 1, 20240101, "present")}

\* ---------------------------------------------------------------- results
\* What `await pool.query(...)` gives the handler: rows and rowCount, or a throw.
Rows(rows) ==
  [error |-> FALSE, cause |-> "none", rowCount |-> Len(rows), rows |-> rows]
Throws(cause) == [error |-> TRUE, cause |-> cause, rowCount |-> 0, rows |-> << >>]
ForeignKeyViolation == Throws("foreign_key_violation")
ConnectionFailure == Throws("connection_failure")
NoResult == Rows(<< >>)

\* A statement's outcome: the store after it and the result handed back.
Outcome(st, at, sseq, aseq, res) ==
  [students |-> st, attendance |-> at, student_id_seq |-> sseq,
   attendance_id_seq |-> aseq, result |-> res]

\* ---------------------------------------------------------------- schema
\* attendance.student_id REFERENCES students(student_id): checked on insert.
ForeignKeyHolds(student_id) ==
  \E s \in students : s.student_id = student_id

\* The same key with its default action: a referenced student cannot be deleted.
Referenced(student_id) ==
  \E a \in attendance : a.student_id = student_id

\* A generated key: the next value of the column's sequence.
NextVal(seq) == seq + 1

\* ---------------------------------------------------------------- statements
RECURSIVE OrderByStudentId(_)
\* ORDER BY student_id ASC
OrderByStudentId(S) ==
  IF S = {} THEN << >>
  ELSE LET first == CHOOSE r \in S : \A q \in S : r.student_id <= q.student_id
       IN <<first>> \o OrderByStudentId(S \ {first})

RECURSIVE Orderings(_)
\* Every sequence that lists each row of S once.
Orderings(S) ==
  IF S = {} THEN {<< >>}
  ELSE UNION {{<<r>> \o rest : rest \in Orderings(S \ {r})} : r \in S}

\* Mutant of OrderByDateDesc: ORDER BY a.date with the direction left out.
OrderByDateAsc(S) ==
  {rows \in Orderings(S) :
     \A i, j \in 1..Len(rows) : i < j => rows[i].date <= rows[j].date}

\* ORDER BY a.date DESC: rows of equal date come in any order.
OrderByDateDesc(S) ==
  {rows \in Orderings(S) :
     \A i, j \in 1..Len(rows) : i < j => rows[i].date >= rows[j].date}

\* FROM attendance a JOIN students s ON a.student_id = s.student_id
JoinAttendanceStudents ==
  {JoinedRow(a, s) : <<a, s>> \in
     {p \in attendance \X students : p[1].student_id = p[2].student_id}}

\* SELECT * FROM students ORDER BY student_id ASC
SelectStudents ==
  Outcome(students, attendance, student_id_seq, attendance_id_seq,
          Rows(OrderByStudentId(students)))

\* SELECT ... FROM attendance a JOIN students s ... ORDER BY a.date DESC
SelectAttendance(rows) ==
  Outcome(students, attendance, student_id_seq, attendance_id_seq, Rows(rows))

\* Mutant of InsertStudent: the values bound in the wrong order.
InsertStudentSwapped(name, roll_number) ==
  LET row == StudentRow(NextVal(student_id_seq), roll_number, name)
  IN Outcome(students \cup {row}, attendance, NextVal(student_id_seq),
             attendance_id_seq, Rows(<<row>>))

\* INSERT INTO students (name, roll_number) VALUES ($1, $2) RETURNING *
InsertStudent(name, roll_number) ==
  LET row == StudentRow(NextVal(student_id_seq), name, roll_number)
  IN Outcome(students \cup {row}, attendance, NextVal(student_id_seq),
             attendance_id_seq, Rows(<<row>>))

\* INSERT INTO attendance (student_id, date, status) VALUES ($1, $2, $3) RETURNING *
InsertAttendance(student_id, date, status) ==
  LET row == AttendanceRow(NextVal(attendance_id_seq), student_id, date, status)
  IN IF ForeignKeyHolds(student_id)
     THEN Outcome(students, attendance \cup {row}, student_id_seq,
                  NextVal(attendance_id_seq), Rows(<<row>>))
     ELSE Outcome(students, attendance, student_id_seq,
                  NextVal(attendance_id_seq), ForeignKeyViolation)

\* Mutant of UpdateStudent: an upsert, which creates the row it does not find.
UpdateStudentUpsert(name, roll_number, id) ==
  LET hit == {s \in students : s.student_id = id}
      new == {StudentRow(id, name, roll_number)}
  IN Outcome((students \ hit) \cup new, attendance, student_id_seq,
             attendance_id_seq, Rows(OrderByStudentId(new)))

\* UPDATE students SET name = $1, roll_number = $2 WHERE student_id = $3 RETURNING *
UpdateStudent(name, roll_number, id) ==
  LET hit == {s \in students : s.student_id = id}
      new == {StudentRow(s.student_id, name, roll_number) : s \in hit}
  IN Outcome((students \ hit) \cup new, attendance, student_id_seq,
             attendance_id_seq, Rows(OrderByStudentId(new)))

\* Mutant of UpdateAttendance: the WHERE clause left out.
UpdateAttendanceEveryRow(status, id) ==
  LET new == {AttendanceRow(a.attendance_id, a.student_id, a.date, status) :
                a \in attendance}
      hit == {a \in new : a.attendance_id = id}
  IN Outcome(students, new, student_id_seq, attendance_id_seq,
             Rows(IF hit = {} THEN << >> ELSE <<CHOOSE a \in hit : TRUE>>))

\* UPDATE attendance SET status = $1 WHERE attendance_id = $2 RETURNING *
UpdateAttendance(status, id) ==
  LET hit == {a \in attendance : a.attendance_id = id}
      new == {AttendanceRow(a.attendance_id, a.student_id, a.date, status) : a \in hit}
  IN Outcome(students, (attendance \ hit) \cup new, student_id_seq,
             attendance_id_seq,
             Rows(IF new = {} THEN << >> ELSE <<CHOOSE a \in new : TRUE>>))

\* Mutant of DeleteStudent: the row is selected, not deleted.
DeleteStudentKeepsRow(id) ==
  LET hit == {s \in students : s.student_id = id}
  IN Outcome(students, attendance, student_id_seq, attendance_id_seq,
             Rows(OrderByStudentId(hit)))

\* Mutant of DeleteStudent: the student's attendance records are deleted first.
DeleteStudentCascade(id) ==
  LET hit == {s \in students : s.student_id = id}
  IN Outcome(students \ hit, {a \in attendance : a.student_id # id},
             student_id_seq, attendance_id_seq, Rows(OrderByStudentId(hit)))

\* DELETE FROM students WHERE student_id = $1 RETURNING *
DeleteStudent(id) ==
  LET hit == {s \in students : s.student_id = id}
  IN IF hit # {} /\ Referenced(id)
     THEN Outcome(students, attendance, student_id_seq, attendance_id_seq,
                  ForeignKeyViolation)
     ELSE Outcome(students \ hit, attendance, student_id_seq, attendance_id_seq,
                  Rows(OrderByStudentId(hit)))

\* DELETE FROM attendance WHERE attendance_id = $1 RETURNING *
DeleteAttendance(id) ==
  LET hit == {a \in attendance : a.attendance_id = id}
  IN Outcome(students, attendance \ hit, student_id_seq, attendance_id_seq,
             Rows(IF hit = {} THEN << >> ELSE <<CHOOSE a \in hit : TRUE>>))

\* ---------------------------------------------------------------- handlers
\* Mutant of Reply: the catch block answers without res.status(500).
ReplyWithoutStatus(r, res) ==
  IF res.error THEN <<200>>
  ELSE IF r \in ByIdRoutes /\ res.rowCount = 0 THEN <<404>>
  ELSE IF r \in {POST_STUDENTS, POST_ATTENDANCE} THEN <<201>>
  ELSE <<200>>

\* Mutant of Reply: the 404 branch does not return, and the handler goes on to
\* answer again.
ReplyWithoutReturn(r, res) ==
  IF res.error THEN <<500>>
  ELSE IF r \in ByIdRoutes /\ res.rowCount = 0 THEN <<404, 200>>
  ELSE IF r \in {POST_STUDENTS, POST_ATTENDANCE} THEN <<201>>
  ELSE <<200>>

\* Mutant of Reply: the inserts answer without res.status(201).
ReplyWithoutCreated(r, res) ==
  IF res.error THEN <<500>>
  ELSE IF r \in ByIdRoutes /\ res.rowCount = 0 THEN <<404>>
  ELSE <<200>>

\* The status codes a handler answers with once pool.query has settled:
\* the catch block's 500, the rowCount === 0 branch's 404 (which returns),
\* 201 from the two inserts, express's default 200 otherwise.
Reply(r, res) ==
  IF res.error THEN <<500>>
  ELSE IF r \in ByIdRoutes /\ res.rowCount = 0 THEN <<404>>
  ELSE IF r \in {POST_STUDENTS, POST_ATTENDANCE} THEN <<201>>
  ELSE <<200>>

\* Mutant of Released: the connection is given back on success only.
ReleasedOnSuccess(res, h) == IF res.error THEN 0 ELSE h

\* pool.query gives its connection back when the statement settles, with or
\* without an error, before the handler sees the outcome.
Released(res, h) == h

\* ---------------------------------------------------------------- initial state
\* The process before any request: no handler has run and nothing is lent.
InitProcess ==
  /\ pool = 0
  /\ requests = 0
  /\ pc = [h \in Handlers |-> "idle"]
  /\ route = [h \in Handlers |-> NO_ROUTE]
  /\ args = [h \in Handlers |-> << >>]
  /\ result = [h \in Handlers |-> NoResult]
  /\ held = [h \in Handlers |-> 0]
  /\ queries = [h \in Handlers |-> 0]
  /\ sent = [h \in Handlers |-> << >>]
  /\ returned = {}
  /\ deleted = {}

\* The store outlives the process: it starts empty, or with rows from earlier runs.
InitStore(seeded) ==
  /\ students = IF seeded THEN SeedStudents ELSE {}
  /\ attendance = IF seeded THEN SeedAttendance ELSE {}
  /\ student_id_seq = Cardinality(students)
  /\ attendance_id_seq = Cardinality(attendance)

\* The process serving requests, its startup connection test settled, on a
\* store that holds rows of earlier runs.
Init ==
  /\ InitStore(TRUE)
  /\ startup = "released"
  /\ InitProcess

\* The process as it starts on an empty store: the connection test of
\* pool.connect() is pending while the server already listens.
InitBoot ==
  /\ InitStore(FALSE)
  /\ startup = "connecting"
  /\ InitProcess

\* ---------------------------------------------------------------- startup
\* pool.connect() resolves with a client.
StartupConnect ==
  /\ startup = "connecting"
  /\ pool < PoolMax
  /\ startup' = "connected"
  /\ pool' = pool + 1
  /\ UNCHANGED <<store, pc, route, args, result, held, queries, sent, requests, history>>

\* .then(client => { ...; client.release(); })
StartupRelease ==
  /\ startup = "connected"
  /\ startup' = "released"
  /\ pool' = pool - 1
  /\ UNCHANGED <<store, pc, route, args, result, held, queries, sent, requests, history>>

\* .catch(err => console.error(...)): no client was lent.
StartupError ==
  /\ startup = "connecting"
  /\ startup' = "failed"
  /\ UNCHANGED <<store, pool, pc, route, args, result, held, queries, sent, requests, history>>

\* ---------------------------------------------------------------- requests
\* h can take a request: it has none, or has answered its last one. Handlers
\* are interchangeable, so a request takes the first one that is free.
Free(h) ==
  /\ requests < MaxRequests
  /\ pc[h] \in {"idle", "done"}
  /\ \A g \in Handlers : g < h => pc[g] \notin {"idle", "done"}

\* app.get("/"): answers at once, no statement.
Root(h) ==
  /\ Free(h)
  /\ pc' = [pc EXCEPT ![h] = "done"]
  /\ route' = [route EXCEPT ![h] = NO_ROUTE]
  /\ queries' = [queries EXCEPT ![h] = 0]
  /\ sent' = [sent EXCEPT ![h] = <<200>>]
  /\ requests' = requests + 1
  /\ UNCHANGED <<store, pool, startup, args, result, held, history>>

\* A data route's handler starts and reaches its await pool.query(...).
Request(h, r) ==
  /\ Free(h)
  /\ r \in QueryRoutes
  /\ pc' = [pc EXCEPT ![h] = "waiting"]
  /\ route' = [route EXCEPT ![h] = r]
  /\ queries' = [queries EXCEPT ![h] = 1]
  /\ sent' = [sent EXCEPT ![h] = << >>]
  /\ requests' = requests + 1
  /\ UNCHANGED <<store, pool, startup, args, result, held, history>>

\* The pool lends the statement a connection, when it has one to lend.
Connect(h) ==
  /\ pc[h] = "waiting"
  /\ pool < PoolMax
  /\ pool' = pool + 1
  /\ held' = [held EXCEPT ![h] = @ + 1]
  /\ pc' = [pc EXCEPT ![h] = "running"]
  /\ UNCHANGED <<store, startup, route, args, result, queries, sent, requests, history>>

\* The pool cannot reach the store: pool.query rejects, nothing was lent.
ConnectError(h) ==
  /\ pc[h] = "waiting"
  /\ pc' = [pc EXCEPT ![h] = "executed"]
  /\ result' = [result EXCEPT ![h] = ConnectionFailure]
  /\ UNCHANGED <<store, pool, startup, route, args, held, queries, sent, requests, history>>

\* The store has executed the statement of h with outcome `out`.
Executed(h, bound, out) ==
  /\ students' = out.students
  /\ attendance' = out.attendance
  /\ student_id_seq' = out.student_id_seq
  /\ attendance_id_seq' = out.attendance_id_seq
  /\ args' = [args EXCEPT ![h] = bound]
  /\ result' = [result EXCEPT ![h] = out.result]
  /\ pc' = [pc EXCEPT ![h] = "executed"]
  /\ UNCHANGED <<pool, startup, route, held, queries, sent, requests, history>>

Running(h, r) == pc[h] = "running" /\ route[h] = r

\* The statement fails in the store or on the wire (connection loss).
QueryError(h) ==
  /\ pc[h] = "running"
  /\ Executed(h, args[h], Outcome(students, attendance, student_id_seq,
                                  attendance_id_seq, ConnectionFailure))

QueryGetStudents(h) ==
  /\ Running(h, GET_STUDENTS)
  /\ Executed(h, << >>, SelectStudents)

QueryGetAttendance(h) ==
  /\ Running(h, GET_ATTENDANCE)
  /\ \E rows \in OrderByDateDesc(JoinAttendanceStudents) :
       Executed(h, << >>, SelectAttendance(rows))

QueryPostStudents(h) ==
  /\ Running(h, POST_STUDENTS)
  /\ \E name \in Names, roll_number \in RollNumbers :
       Executed(h, <<name, roll_number>>, InsertStudent(name, roll_number))

QueryPostAttendance(h) ==
  /\ Running(h, POST_ATTENDANCE)
  /\ \E student_id \in StudentIds, date \in Dates, status \in Statuses :
       Executed(h, <<student_id, date, status>>,
                InsertAttendance(student_id, date, status))

QueryPutStudents(h) ==
  /\ Running(h, PUT_STUDENTS)
  /\ \E id \in StudentIds, name \in Names, roll_number \in RollNumbers :
       Executed(h, <<name, roll_number, id>>,
                UpdateStudent(name, roll_number, id))

QueryPutAttendance(h) ==
  /\ Running(h, PUT_ATTENDANCE)
  /\ \E id \in AttendanceIds, status \in Statuses :
       Executed(h, <<status, id>>, UpdateAttendance(status, id))

QueryDeleteStudents(h) ==
  /\ Running(h, DELETE_STUDENTS)
  /\ \E id \in StudentIds : Executed(h, <<id>>, DeleteStudent(id))

QueryDeleteAttendance(h) ==
  /\ Running(h, DELETE_ATTENDANCE)
  /\ \E id \in AttendanceIds : Executed(h, <<id>>, DeleteAttendance(id))

\* The outcome reaches the process: the connection returns to the pool, the
\* handler resumes after its await and answers.
Respond(h) ==
  /\ pc[h] = "executed"
  /\ LET codes == Reply(route[h], result[h])
         back == Released(result[h], held[h])
     IN /\ sent' = [sent EXCEPT ![h] = @ \o codes]
        /\ pool' = pool - back
        /\ held' = [held EXCEPT ![h] = @ - back]
        /\ returned' =
             IF route[h] = POST_STUDENTS /\ ~result[h].error
             THEN returned \cup {result[h].rows[1].student_id}
             ELSE returned
        /\ deleted' =
             IF route[h] = DELETE_STUDENTS /\ codes = <<200>>
             THEN deleted \cup {result[h].rows[1].student_id}
             ELSE deleted
  /\ pc' = [pc EXCEPT ![h] = "done"]
  /\ route' = [route EXCEPT ![h] = NO_ROUTE]
  /\ args' = [args EXCEPT ![h] = << >>]
  /\ result' = [result EXCEPT ![h] = NoResult]
  /\ UNCHANGED <<store, startup, queries, requests>>

\* The steps of the requests.
Next ==
  \E h \in Handlers :
    \/ Root(h)
    \/ \E r \in QueryRoutes : Request(h, r)
    \/ Connect(h)
    \/ ConnectError(h)
    \/ QueryError(h)
    \/ QueryGetStudents(h)
    \/ QueryGetAttendance(h)
    \/ QueryPostStudents(h)
    \/ QueryPostAttendance(h)
    \/ QueryPutStudents(h)
    \/ QueryPutAttendance(h)
    \/ QueryDeleteStudents(h)
    \/ QueryDeleteAttendance(h)
    \/ Respond(h)

\* The steps of the requests and of the startup connection test.
NextBoot ==
  \/ StartupConnect
  \/ StartupRelease
  \/ StartupError
  \/ Next

Spec == Init /\ [][Next]_vars

SpecBoot == InitBoot /\ [][NextBoot]_vars

\* ---------------------------------------------------------------- steps
\* The store settles the statement of h, a request of route r.
QueryStep(h, r) ==
  pc[h] = "running" /\ route[h] = r /\ pc'[h] = "executed"

\* The store executes the statement of h (the connection did not fail).
Ran(h, r) ==
  QueryStep(h, r) /\ result'[h].cause # "connection_failure"

\* The handler of h resumes and answers.
RespondStep(h) ==
  pc[h] = "executed" /\ pc'[h] = "done"

\* The id a by-id statement is bound to: its last parameter.
PathId(bound) == bound[Len(bound)]

\* Some row of the table route r works on has this id.
Matches(r, id) ==
  IF r \in {PUT_STUDENTS, DELETE_STUDENTS}
  THEN \E s \in students : s.student_id = id
  ELSE \E a \in attendance : a.attendance_id = id

\* The positions of a result's rows.
Positions(rows) == 1..Len(rows)

\* ---------------------------------------------------------------- claims

\* C1: POST /attendance with a student_id that no row of students has when the
\* insert runs fails, adds no attendance record and is answered 500; an insert
\* that succeeds adds exactly the returned record, whose student existed at the
\* insert, so every record a step adds referenced an existing student.
C1_MarkAttendanceNeedsStudent ==
  [][\A h \in Handlers :
       /\ Ran(h, POST_ATTENDANCE) =>
            IF ForeignKeyHolds(args'[h][1])
            THEN /\ ~result'[h].error
                 /\ result'[h].rows[1].student_id = args'[h][1]
                 /\ attendance' = attendance \cup {result'[h].rows[1]}
            ELSE /\ result'[h].error
                 /\ attendance' = attendance
       /\ \A a \in attendance' \ attendance : ForeignKeyHolds(a.student_id)
       /\ (RespondStep(h) /\ route[h] = POST_ATTENDANCE /\ result[h].error) =>
            (sent'[h] = <<500>> /\ attendance' = attendance)
    ]_vars

\* C1 witness: an insert for a missing student has failed on the foreign key.
C1_Witness ==
  \E h \in Handlers :
    /\ pc[h] = "executed"
    /\ route[h] = POST_ATTENDANCE
    /\ result[h] = ForeignKeyViolation
    /\ ~ForeignKeyHolds(args[h][1])

C5_UpdateAttendanceChangesStatusOnly ==
  [][\A h \in Handlers :
       (Ran(h, PUT_ATTENDANCE) /\ Matches(PUT_ATTENDANCE, PathId(args'[h]))) =>
         LET old == CHOOSE a \in attendance : a.attendance_id = PathId(args'[h])
             new == [old EXCEPT !.status = args'[h][1]]
         IN /\ result'[h] = Rows(<<new>>)
            /\ attendance' = (attendance \ {old}) \cup {new}
            /\ students' = students
            /\ student_id_seq' = student_id_seq
            /\ attendance_id_seq' = attendance_id_seq
    ]_vars

\* C5 witness: the status of one of two records has been set to "absent".
C5_Witness ==
  \E h \in Handlers :
    /\ pc[h] = "executed" /\ route[h] = PUT_ATTENDANCE
    /\ result[h].rowCount = 1
    /\ result[h].rows[1].status = "absent"
    /\ result[h].rows[1] \in attendance
    /\ Cardinality(attendance) >= 2

\* C6: the rows GET /attendance selects come latest date first, and every
\* attendance record of the store is among them exactly once, joined with the
\* name and roll_number of its student.
C6_AttendanceListedByDateDesc ==
  [][\A h \in Handlers :
       Ran(h, GET_ATTENDANCE) =>
         LET rows == result'[h].rows
         IN /\ ~result'[h].error
            /\ \A i, j \in Positions(rows) : rows[i].date > rows[j].date => i < j
            /\ Len(rows) = Cardinality(attendance)
            /\ \A a \in attendance :
                 /\ Cardinality({i \in Positions(rows) :
                       rows[i].attendance_id = a.attendance_id}) = 1
                 /\ \E s \in students :
                      /\ s.student_id = a.student_id
                      /\ Cardinality({i \in Positions(rows) :
                            rows[i] = JoinedRow(a, s)}) = 1
    ]_vars

\* C6 witness: a list of two records of different dates has been selected.
C6_Witness ==
  \E h \in Handlers :
    /\ pc[h] = "executed" /\ route[h] = GET_ATTENDANCE
    /\ result[h].rowCount >= 2
    /\ result[h].rows[1].date > result[h].rows[2].date

\* The student g has created is in the store as created.
Created(g) ==
  /\ pc[g] = "executed" /\ route[g] = POST_STUDENTS
  /\ ~result[g].error
  /\ result[g].rows[1] \in students

Lent ==
  LET RECURSIVE Sum(_)
      Sum(n) == IF n = 0 THEN 0 ELSE held[n] + Sum(n - 1)
  IN Sum(NumHandlers) + (IF startup = "connected" THEN 1 ELSE 0)

\* C8: a request holds at most one connection, and only while its statement is
\* with the store; the pool never lends more than PoolMax; and once every
\* request has been answered (and the startup test has released) none is lent.
C8_ConnectionsAreReturned ==
  /\ \A h \in Handlers :
       /\ held[h] \in {0, 1}
       /\ pc[h] \in {"idle", "waiting", "done"} => held[h] = 0
       /\ pc[h] = "running" => held[h] = 1
  /\ pool = Lent
  /\ pool <= PoolMax
  /\ ((\A h \in Handlers : pc[h] \in {"idle", "done"}) /\ startup # "connected")
       => pool = 0

\* C8 witness: the startup test has released its connection and requests have
\* been answered 500 and 404, with nothing left lent.
C8_Witness ==
  \E h, g \in Handlers :
    /\ pc[h] = "done" /\ sent[h] = <<500>>
    /\ pc[g] = "done" /\ sent[g] = <<404>>
    /\ startup = "released"
    /\ pool = 0

\* The one status code route r answers a result with.
Status(r, res) ==
  IF res.error THEN 500
  ELSE IF r \in ByIdRoutes /\ res.rowCount = 0 THEN 404
  ELSE IF r \in {POST_STUDENTS, POST_ATTENDANCE} THEN 201
  ELSE 200

ReferentialIntegrity ==
  \A a \in attendance : ForeignKeyHolds(a.student_id)

\* C10: every attendance record refers to a student of the store; a
\* DELETE /students/:id of a student that has attendance records fails, removes
\* no student and no attendance record, and is answered 500.
C10_ReferencedStudentIsKept ==
  [][\A h \in Handlers :
       /\ ReferentialIntegrity /\ ReferentialIntegrity'
       /\ (Ran(h, DELETE_STUDENTS) /\ Referenced(args'[h][1])) =>
            (result'[h] = ForeignKeyViolation /\ store' = store)
       /\ (RespondStep(h) /\ route[h] = DELETE_STUDENTS /\ result[h].error) =>
            (sent'[h] = <<500>> /\ store' = store)
    ]_vars

\* C10 witness: the delete of a student has failed on the foreign key while a
\* concurrent request has marked attendance for that student.
C10_Witness ==
  \E h, g \in Handlers :
    /\ pc[h] = "executed" /\ route[h] = DELETE_STUDENTS
    /\ result[h] = ForeignKeyViolation
    /\ pc[g] = "executed" /\ route[g] = POST_ATTENDANCE
    /\ ~result[g].error
    /\ args[g][1] = args[h][1]

====
